---- MODULE Spec2Model ----
(***************************************************************************)
(* A model of export.py: the Trello board exporter.  main(options) sets up *)
(* the client, resolves the board (find_board) and the lists (find_lists), *)
(* builds the lazy per-list generators (get_data) and hands them to        *)
(* save_to_file, which fetches, formats and writes card by card.           *)
(* Python strings are TLA+ strings; files are strings keyed by file name.  *)
(***************************************************************************)
EXTENDS Integers, Sequences, FiniteSets, TLC

\* ------------------------------------------------------------- bounds
MaxBoards == 2   \* boards the service returns (find_board specification)
MaxLists == 2    \* lists on the resolved board
MaxCards == 2    \* cards in one list
MaxNames == 2    \* lists on the board (find_lists specification)

VARIABLES
    options,        \* the options object main receives
    cli,            \* TRUE: options is the argparse.Namespace built under __main__
    remote_boards,  \* names of the boards the service holds, in list_boards() order
    remote_lists,   \* lists of the resolved board, in list_lists() order
    pc,             \* position of the run inside main / save_to_file
    exc,            \* class of the exception that reached main's handler
    board,          \* index in remote_boards of the board find_board returned
    lists,          \* indices in remote_lists of the lists find_lists returned
    li,             \* lists consumed from the generator handed to save_to_file
    list_data,      \* ListData of the list being saved: its name and fetched cards
    ci,             \* cards consumed from list_data.cards
    card_data,      \* the CardData the generator of get_data produced last
    output,         \* name of the file currently open
    fs,             \* the local files: file name -> content
    files,          \* save_to_file's set of file names
    log,            \* records the logger received
    events,         \* remote calls and file operations of the run, in order
    rerun,          \* TRUE in the second run over the same files
    prev_fs         \* the files as the first run left them

vars == <<options, cli, remote_boards, remote_lists, pc, exc, board, lists, li,
          list_data, ci, card_data, output, fs, files, log, events, rerun, prev_fs>>

\* ------------------------------------------------------------ strings
SeqsUpTo(S, n) == UNION {[1..k -> S] : k \in 0..n}

UpperCase == "ABCDEFGHIJKLMNOPQRSTUVWXYZ"
LowerCase == "abcdefghijklmnopqrstuvwxyz"

LowerChar(c) ==
    IF \E i \in 1..Len(UpperCase) : SubSeq(UpperCase, i, i) = c
    THEN LET i == CHOOSE k \in 1..Len(UpperCase) : SubSeq(UpperCase, k, k) = c
         IN  SubSeq(LowerCase, i, i)
    ELSE c

RECURSIVE lower(_)
\* str.lower()
lower(s) == IF s = "" THEN "" ELSE LowerChar(SubSeq(s, 1, 1)) \o lower(Tail(s))

\* q in s, for strings
Contains(s, q) ==
    \E i \in 1..(Len(s) - Len(q) + 1) : SubSeq(s, i, i + Len(q) - 1) = q

RECURSIVE split(_, _)
\* s.split(sep), sep one character
split(s, sep) ==
    IF \E i \in 1..Len(s) : SubSeq(s, i, i) = sep
    THEN LET i == CHOOSE k \in 1..Len(s) :
                      /\ SubSeq(s, k, k) = sep
                      /\ \A m \in 1..(k - 1) : SubSeq(s, m, m) # sep
         IN  <<SubSeq(s, 1, i - 1)>> \o split(SubSeq(s, i + 1, Len(s)), sep)
    ELSE <<s>>

RECURSIVE join(_, _)
\* sep.join(parts)
join(parts, sep) ==
    IF Len(parts) = 0 THEN ""
    ELSE IF Len(parts) = 1 THEN parts[1]
    ELSE parts[1] \o sep \o join(Tail(parts), sep)

InSeq(x, s) == \E i \in 1..Len(s) : s[i] = x

RECURSIVE SelectIdx(_, _)
\* the indices from i on, ascending, at which keep is TRUE: the elements a
\* list comprehension keeps, in order
SelectIdx(keep, i) ==
    IF i > Len(keep) THEN <<>>
    ELSE (IF keep[i] THEN <<i>> ELSE <<>>) \o SelectIdx(keep, i + 1)

\* ------------------------------------------------------------ logging
Rec(level, msg) == [level |-> level, msg |-> msg]

NoExc == "none"
\* the subclasses of TrelloExportException
TrelloExportException == {"CredentialsException", "NoBoardException", "NoListsException"}

MsgAmbiguous == "Found more than one board with this name"
MsgNotFound == "Didn't find neither an exact match nor a similar name"
MsgFailed == "Export failed. See details above"

\* ---------------------------------------------------------- find_board
\* mutant: the exact tier compares without lower()
MatchingBoardsCaseSensitive(all_boards, board_name) ==
    SelectIdx([i \in 1..Len(all_boards) |-> all_boards[i] = board_name], 1)

MatchingBoards(all_boards, board_name) ==
    SelectIdx([i \in 1..Len(all_boards) |-> lower(all_boards[i]) = lower(board_name)], 1)

InexactlyMatching(all_boards, board_name) ==
    SelectIdx([i \in 1..Len(all_boards) |->
                  Contains(lower(all_boards[i]), lower(board_name))], 1)

\* find_board after list_boards() returned all_boards: what it returns or raises
find_board(all_boards, board_name) ==
    LET matching_boards == MatchingBoards(all_boards, board_name)
        inexactly_matching == InexactlyMatching(all_boards, board_name)
        l1 == <<Rec("info", "Didn't find an exact match")>>
    IN  IF Len(matching_boards) = 1
        THEN [raised |-> NoExc, board |-> matching_boards[1],
              log |-> <<Rec("info", "Found a board with exactly this name")>>]
        ELSE IF Len(matching_boards) > 1
        THEN [raised |-> "NoBoardException", board |-> 0,
              log |-> <<Rec("error", MsgAmbiguous)>>]
        ELSE IF Len(inexactly_matching) = 1
        THEN [raised |-> NoExc, board |-> inexactly_matching[1],
              log |-> l1 \o <<Rec("info", "Found a board with a matching name: "
                                     \o all_boards[inexactly_matching[1]])>>]
        ELSE IF Len(inexactly_matching) > 1
        THEN [raised |-> "NoBoardException", board |-> 0,
              log |-> l1 \o <<Rec("error", MsgAmbiguous)>>]
        ELSE [raised |-> "NoBoardException", board |-> 0,
              log |-> l1 \o <<Rec("error", MsgNotFound)>>]

\* ---------------------------------------------------------- find_lists
\* if lists_names: (None and '' are falsy)
Truthy(lists_names) == lists_names.given /\ lists_names.value # ""

\* mutant: "if lists_names is not None", so '' is taken as a filter
MatchingListsNotNone(board_lists, lists_names) ==
    IF lists_names.given
    THEN LET names == split(lists_names.value, ",")
         IN  SelectIdx([i \in 1..Len(board_lists) |-> InSeq(board_lists[i].name, names)], 1)
    ELSE [i \in 1..Len(board_lists) |-> i]

MatchingLists(board_lists, lists_names) ==
    IF Truthy(lists_names)
    THEN LET names == split(lists_names.value, ",")
         IN  SelectIdx([i \in 1..Len(board_lists) |-> InSeq(board_lists[i].name, names)], 1)
    ELSE [i \in 1..Len(board_lists) |-> i]

\* find_lists after board.list_lists() returned board_lists
find_lists(board_lists, lists_names) ==
    LET matching_lists == MatchingLists(board_lists, lists_names)
        found == Len(matching_lists)
        exported_lists == join([i \in 1..found |-> board_lists[matching_lists[i]].name], ", ")
        info == <<Rec("info", "Exporting lists " \o exported_lists)>>
        requested == Len(split(lists_names.value, ","))
    IN  IF found = 0
        THEN [raised |-> "NoListsException", lists |-> <<>>,
              log |-> <<Rec("error", "No lists with specified names found")>>]
        ELSE [raised |-> NoExc, lists |-> matching_lists,
              log |-> IF Truthy(lists_names) /\ found # requested
                      THEN info \o <<Rec("warning", "Found only " \o ToString(found)
                                     \o " lists out of specified " \o ToString(requested))>>
                      ELSE info]

\* ---------------------------------------------- get_data, extract_comments
CardData(name, desc, comments) == [name |-> name, desc |-> desc, comments |-> comments]

\* mutant: the export_comments test is dropped
ExtractCommentsAlways(card, export_comments) ==
    LET comments == card.comments
    IN  join([k \in 1..Len(comments) |->
                 comments[k].fullName \o ": " \o comments[k].text], "\n")

\* extract_comments(card, export_comments); card.comments stands for what
\* card.get_comments() returns, read only when export_comments is set
extract_comments(card, export_comments) ==
    IF ~export_comments THEN ""
    ELSE LET comments == card.comments
         IN  join([k \in 1..Len(comments) |->
                      comments[k].fullName \o ": " \o comments[k].text], "\n")

\* --------------------------------------------------------- format_card
\* mutant: enumerate without start=1, the ordinal is zero-based
FormatCardZeroBased(card, count, no_numbering, prefix) ==
    LET r0 == card.name \o "\n" \o card.desc \o "\n"
        r1 == IF ~no_numbering
              THEN prefix \o " " \o ToString(count - 1) \o ". " \o r0
              ELSE r0
    IN  IF card.comments # ""
        THEN r1 \o " \n" \o card.comments \o "\n\n"
        ELSE r1

format_card(card, count, no_numbering, prefix) ==
    LET r0 == card.name \o "\n" \o card.desc \o "\n"
        r1 == IF ~no_numbering
              THEN prefix \o " " \o ToString(count) \o ". " \o r0
              ELSE r0
    IN  IF card.comments # ""
        THEN r1 \o " \n" \o card.comments \o "\n\n"
        ELSE r1

\* -------------------------------------------------------- save_to_file
\* the file name and mode save_to_file picks for one list
filename(merge, board_name, list_name) ==
    IF merge THEN board_name \o ".txt" ELSE list_name \o ".txt"

\* mutant: the merged file is opened with 'w' too
OpenModeAlwaysWrite(merge) == "w"

open_mode(merge) == IF merge THEN "a" ELSE "w"

Put(f, k, v) == [x \in DOMAIN f \cup {k} |-> IF x = k THEN v ELSE f[x]]

\* open(filename, mode): 'w' truncates or creates, 'a' creates when missing
open(f, name, mode) ==
    IF mode = "w" \/ name \notin DOMAIN f THEN Put(f, name, "") ELSE f

\* ------------------------------------------------------- the service
\* The j-th card of the i-th list; card j carries (j - 1) % 3 comments.
Comment(k) == [fullName |-> IF k % 2 = 1 THEN "Ann" ELSE "Bob",
               text |-> "t" \o ToString(k)]
Card(i, j) == [name |-> "N" \o ToString(i) \o ToString(j),
               description |-> "D" \o ToString(j),
               comments |-> [k \in 1..((j - 1) % 3) |-> Comment(k)]]
TrelloList(i, name, n) == [name |-> name, cards |-> [j \in 1..n |-> Card(i, j)]]

ListNames == {"A", "B"}
BoardLists ==
    {[i \in 1..Len(sh) |-> TrelloList(i, sh[i][1], sh[i][2])] :
        sh \in SeqsUpTo(ListNames \X (0..MaxCards), MaxLists)}

NoFilter == [given |-> FALSE, value |-> ""]
Filter(v) == [given |-> TRUE, value |-> v]

MainOptions ==
    [board : {"dev"}, lists : {NoFilter, Filter("A")}, prefix : {"", "Card"},
     comments : BOOLEAN, merge : BOOLEAN, no_numbering : BOOLEAN]
MainBoards == {<<"Dev">>, <<"Dev", "dev">>}

NoFile == ""
NoList == [name |-> "", cards |-> <<>>]
NoCard == CardData("", "", "")
EmptyFs == [x \in {} |-> ""]

Init ==
    /\ options \in MainOptions
    /\ cli \in BOOLEAN
    /\ remote_boards \in MainBoards
    /\ remote_lists \in BoardLists
    /\ pc = "start"
    /\ exc = NoExc
    /\ board = 0
    /\ lists = <<>>
    /\ li = 0
    /\ list_data = NoList
    /\ ci = 0
    /\ card_data = NoCard
    /\ output = NoFile
    /\ files = {}
    /\ log = <<>>
    /\ events = <<>>
    /\ fs = EmptyFs
    /\ rerun = FALSE
    /\ prev_fs = EmptyFs

\* ---------------------------------------------------------------- main
\* main's try/except: a TrelloExportException is logged and swallowed, any
\* other exception leaves main
Except(e, lg) ==
    /\ exc' = e
    /\ pc' = IF e \in TrelloExportException THEN "failed" ELSE "uncaught"
    /\ log' = IF e \in TrelloExportException
              THEN lg \o <<Rec("error", MsgFailed)>>
              ELSE lg

\* client = setup_client()
SetupClient ==
    /\ pc = "start"
    /\ \E has_section \in BOOLEAN :
          IF has_section
          THEN /\ pc' = "client_ready"
               /\ UNCHANGED <<exc, log>>
          ELSE Except("CredentialsException",
                      log \o <<Rec("error", "There's either no trello section in config.conf or no config file at all")>>)
    /\ UNCHANGED <<options, cli, remote_boards, remote_lists, board, lists, li,
                   list_data, ci, card_data, output, fs, files, events, rerun, prev_fs>>

\* board = find_board(client, options.board)
FindBoard ==
    /\ pc = "client_ready"
    /\ events' = Append(events, "list_boards")
    /\ \E unauthorized \in BOOLEAN :
          IF unauthorized
          THEN /\ Except("CredentialsException",
                         log \o <<Rec("error", "Invalid API key, secret, or token. Check your config.conf file")>>)
               /\ board' = board
          ELSE LET r == find_board(remote_boards, options.board)
               IN  IF r.raised = NoExc
                   THEN /\ board' = r.board
                        /\ pc' = "board_resolved"
                        /\ log' = log \o r.log
                        /\ exc' = exc
                   ELSE /\ Except(r.raised, log \o r.log)
                        /\ board' = board
    /\ UNCHANGED <<options, cli, remote_boards, remote_lists, lists, li,
                   list_data, ci, card_data, output, fs, files, rerun, prev_fs>>

\* lists = find_lists(board, options.lists)
FindLists ==
    /\ pc = "board_resolved"
    /\ events' = Append(events, "list_lists")
    /\ \E unauthorized \in BOOLEAN :
          IF unauthorized
          THEN /\ Except("Unauthorized", log)
               /\ lists' = lists
          ELSE LET r == find_lists(remote_lists, options.lists)
               IN  IF r.raised = NoExc
                   THEN /\ lists' = r.lists
                        /\ pc' = "lists_resolved"
                        /\ log' = log \o r.log
                        /\ exc' = exc
                   ELSE /\ Except(r.raised, log \o r.log)
                        /\ lists' = lists
    /\ UNCHANGED <<options, cli, remote_boards, remote_lists, board, li,
                   list_data, ci, card_data, output, fs, files, rerun, prev_fs>>

\* cards_data = (...); save_to_file(cards_data, ..., options['no-numbering'], board.name)
\* The generator is created without a remote call; an argparse.Namespace has
\* no __getitem__, so the subscript raises TypeError before the call is made.
CallSaveToFile ==
    /\ pc = "lists_resolved"
    /\ IF cli
       THEN /\ Except("TypeError", log)
            /\ UNCHANGED <<files, li>>
       ELSE /\ pc' = "save_to_file"
            /\ log' = Append(log, Rec("info", "Saving to files"))
            /\ files' = {}
            /\ li' = 0
            /\ exc' = exc
    /\ UNCHANGED <<options, cli, remote_boards, remote_lists, board, lists,
                   list_data, ci, card_data, output, fs, events, rerun, prev_fs>>

\* for list_data in data: the generator runs get_data on the next list
GetData ==
    /\ pc = "save_to_file"
    /\ li < Len(lists)
    /\ events' = Append(events, "list_cards")
    /\ \E unauthorized \in BOOLEAN :
          IF unauthorized
          THEN /\ Except("Unauthorized", log)
               /\ list_data' = list_data
          ELSE LET trello_list == remote_lists[lists[li + 1]]
               IN  /\ list_data' = [name |-> trello_list.name, cards |-> trello_list.cards]
                   /\ log' = Append(log, Rec("info", "Getting data from cards"))
                   /\ pc' = "open"
                   /\ exc' = exc
    /\ UNCHANGED <<options, cli, remote_boards, remote_lists, board, lists, li,
                   ci, card_data, output, fs, files, rerun, prev_fs>>

\* with open(filename, mode) as output:
OpenFile ==
    /\ pc = "open"
    /\ LET name == filename(options.merge, remote_boards[board], list_data.name)
       IN  /\ fs' = open(fs, name, open_mode(options.merge))
           /\ output' = name
    /\ ci' = 0
    /\ events' = Append(events, "open")
    /\ pc' = "writelines"
    /\ UNCHANGED <<options, cli, remote_boards, remote_lists, exc, board, lists, li,
                   list_data, card_data, files, log, rerun, prev_fs>>

\* mutant: extract_comments tests "if export_comments" instead of "if not":
\* the comments are fetched exactly when they were not asked for
ProduceCardInverted ==
    /\ pc = "writelines"
    /\ ci < Len(list_data.cards)
    /\ LET card == list_data.cards[ci + 1]
       IN  IF ~options.comments
           THEN /\ events' = Append(events, "get_comments")
                /\ \E unauthorized \in BOOLEAN :
                      IF unauthorized
                      THEN /\ Except("Unauthorized", log)
                           /\ output' = NoFile
                           /\ card_data' = card_data
                      ELSE /\ card_data' = CardData(card.name, card.description,
                                                    extract_comments(card, TRUE))
                           /\ pc' = "format"
                           /\ UNCHANGED <<exc, log, output>>
           ELSE /\ card_data' = CardData(card.name, card.description, "")
                /\ pc' = "format"
                /\ UNCHANGED <<exc, log, output, events>>
    /\ UNCHANGED <<options, cli, remote_boards, remote_lists, board, lists, li,
                   list_data, ci, fs, files, rerun, prev_fs>>

\* writelines pulls the next card: get_data's generator builds its CardData
ProduceCard ==
    /\ pc = "writelines"
    /\ ci < Len(list_data.cards)
    /\ LET card == list_data.cards[ci + 1]
       IN  IF options.comments
           THEN /\ events' = Append(events, "get_comments")
                /\ \E unauthorized \in BOOLEAN :
                      IF unauthorized
                      THEN /\ Except("Unauthorized", log)
                           /\ output' = NoFile
                           /\ card_data' = card_data
                      ELSE /\ card_data' = CardData(card.name, card.description,
                                                    extract_comments(card, options.comments))
                           /\ pc' = "format"
                           /\ UNCHANGED <<exc, log, output>>
           ELSE /\ card_data' = CardData(card.name, card.description,
                                         extract_comments(card, options.comments))
                /\ pc' = "format"
                /\ UNCHANGED <<exc, log, output, events>>
    /\ UNCHANGED <<options, cli, remote_boards, remote_lists, board, lists, li,
                   list_data, ci, fs, files, rerun, prev_fs>>

\* format_card(card, index, no_numbering, prefix), written to output
WriteCard ==
    /\ pc = "format"
    /\ ci' = ci + 1
    /\ fs' = [fs EXCEPT ![output] =
                 @ \o format_card(card_data, ci + 1, options.no_numbering, options.prefix)]
    /\ events' = Append(events, "write")
    /\ pc' = "writelines"
    /\ UNCHANGED <<options, cli, remote_boards, remote_lists, exc, board, lists, li,
                   list_data, card_data, output, files, log, rerun, prev_fs>>

\* the with block ends; files.add(filename)
CloseFile ==
    /\ pc = "writelines"
    /\ ci = Len(list_data.cards)
    /\ files' = files \cup {output}
    /\ output' = NoFile
    /\ li' = li + 1
    /\ events' = Append(events, "close")
    /\ pc' = "save_to_file"
    /\ UNCHANGED <<options, cli, remote_boards, remote_lists, exc, board, lists,
                   list_data, ci, card_data, fs, log, rerun, prev_fs>>

\* the generator is exhausted: logger.info(f'Saved to {files}'), main returns
Saved ==
    /\ pc = "save_to_file"
    /\ li = Len(lists)
    /\ log' = Append(log, Rec("info", "Saved to files"))
    /\ pc' = "done"
    /\ UNCHANGED <<options, cli, remote_boards, remote_lists, exc, board, lists, li,
                   list_data, ci, card_data, output, fs, files, events, rerun, prev_fs>>

\* the operator runs the export once more: same options, same service, the
\* files of the first run still on disk
Rerun ==
    /\ pc = "done"
    /\ ~rerun
    /\ rerun' = TRUE
    /\ prev_fs' = fs
    /\ pc' = "start"
    /\ exc' = NoExc
    /\ board' = 0
    /\ lists' = <<>>
    /\ li' = 0
    /\ list_data' = NoList
    /\ ci' = 0
    /\ card_data' = NoCard
    /\ output' = NoFile
    /\ files' = {}
    /\ log' = <<>>
    /\ events' = <<>>
    /\ UNCHANGED <<options, cli, remote_boards, remote_lists, fs>>

Next ==
    \/ SetupClient
    \/ FindBoard
    \/ FindLists
    \/ CallSaveToFile
    \/ GetData
    \/ OpenFile
    \/ ProduceCard
    \/ WriteCard
    \/ CloseFile
    \/ Saved
    \/ Rerun

Spec == Init /\ [][Next]_vars

\* ------------------------------------------- find_board on its own
BoardNames == {"Dev", "dev", "DevOps", "Ops"}
Queries == {"dev", "DEV", "Ops", "ev", "x", ""}

InitFindBoard ==
    /\ options \in [board : Queries, lists : {NoFilter}, prefix : {""},
                    comments : {FALSE}, merge : {FALSE}, no_numbering : {FALSE}]
    /\ cli = TRUE
    /\ remote_boards \in SeqsUpTo(BoardNames, MaxBoards)
    /\ remote_lists = <<>>
    /\ pc = "client_ready"
    /\ exc = NoExc
    /\ board = 0
    /\ lists = <<>>
    /\ li = 0
    /\ list_data = NoList
    /\ ci = 0
    /\ card_data = NoCard
    /\ output = NoFile
    /\ files = {}
    /\ log = <<>>
    /\ events = <<>>
    /\ fs = EmptyFs
    /\ rerun = FALSE
    /\ prev_fs = EmptyFs

NextFindBoard == FindBoard

SpecFindBoard == InitFindBoard /\ [][NextFindBoard]_vars

\* ------------------------------------------- find_lists on its own
FilterListNames == {"A", "B", "C"}
Filters == {NoFilter, Filter(""), Filter("A"), Filter("A,C"), Filter("A,B,C"),
            Filter("A,A"), Filter("D")}

InitFindLists ==
    /\ options \in [board : {"dev"}, lists : Filters, prefix : {""},
                    comments : {FALSE}, merge : {FALSE}, no_numbering : {FALSE}]
    /\ cli = TRUE
    /\ remote_boards = <<"Dev">>
    /\ remote_lists \in {[i \in 1..Len(ns) |-> TrelloList(i, ns[i], 0)] :
                            ns \in SeqsUpTo(FilterListNames, MaxNames)}
    /\ pc = "board_resolved"
    /\ exc = NoExc
    /\ board = 1
    /\ lists = <<>>
    /\ li = 0
    /\ list_data = NoList
    /\ ci = 0
    /\ card_data = NoCard
    /\ output = NoFile
    /\ files = {}
    /\ log = <<>>
    /\ events = <<"list_boards">>
    /\ fs = EmptyFs
    /\ rerun = FALSE
    /\ prev_fs = EmptyFs

NextFindLists == FindLists

SpecFindLists == InitFindLists /\ [][NextFindLists]_vars

\* ================================================================ claims
Logged(level, msg) == \E i \in 1..Len(log) : log[i] = Rec(level, msg)
Warned == \E i \in 1..Len(log) : log[i].level = "warning"
RemoteCalls == {"list_boards", "list_lists", "list_cards", "get_comments"}

\* the block of one card as the format is documented: "<name>\n<description>\n",
\* numbered "<prefix> <ordinal>. " in front, " \n<comments>\n\n" behind
DocComments(card) ==
    IF options.comments
    THEN join([k \in 1..Len(card.comments) |->
                  card.comments[k].fullName \o ": " \o card.comments[k].text], "\n")
    ELSE ""
DocBlock(card, ordinal) ==
    (IF options.no_numbering THEN "" ELSE options.prefix \o " " \o ToString(ordinal) \o ". ")
    \o card.name \o "\n" \o card.description \o "\n"
    \o (IF DocComments(card) = "" THEN "" ELSE " \n" \o DocComments(card) \o "\n\n")
RECURSIVE DocBlocksFrom(_, _)
DocBlocksFrom(cards, j) ==
    IF j > Len(cards) THEN "" ELSE DocBlock(cards[j], j) \o DocBlocksFrom(cards, j + 1)
\* the blocks of one list, ordinals from 1
DocList(l) == DocBlocksFrom(l.cards, 1)
RECURSIVE DocListsFrom(_)
\* the blocks of the exported lists from the k-th on, list after list
DocListsFrom(k) ==
    IF k > Len(lists) THEN "" ELSE DocList(remote_lists[lists[k]]) \o DocListsFrom(k + 1)
MergedFile == remote_boards[board] \o ".txt"

\* ---- C1
\* C1 (the claim as stated): a run started from the command line in which the
\* credentials load, the board and the lists resolve and no remote call fails
\* never ends in an uncaught fault: an uncaught fault of a command-line run
\* can only be a failed remote call.
C1_CliRunNeverFaults == (cli /\ pc = "uncaught") => exc = "Unauthorized"

\* ---- C2
ExactSet == {i \in 1..Len(remote_boards) : lower(remote_boards[i]) = lower(options.board)}
SubstringSet ==
    {i \in 1..Len(remote_boards) : Contains(lower(remote_boards[i]), lower(options.board))}
TierUsed == IF ExactSet # {} THEN ExactSet ELSE SubstringSet
FindBoardReturned == pc = "board_resolved"
FindBoardRaised == pc = "failed" /\ exc = "NoBoardException"

\* C2: find_board returns a board only when it is the one match of the tier
\* used (the exact tier when some name equals the query case-insensitively,
\* else the substring tier); with several matches in that tier it raises with
\* the "more than one board" error, with none it raises with the "neither an
\* exact match nor a similar name" error.
C2_UniqueMatchOrFail ==
    (FindBoardReturned \/ FindBoardRaised) =>
        /\ Cardinality(TierUsed) = 1 =>
              FindBoardReturned /\ board \in TierUsed
        /\ Cardinality(TierUsed) > 1 =>
              FindBoardRaised /\ Logged("error", MsgAmbiguous) /\ ~Logged("error", MsgNotFound)
        /\ Cardinality(TierUsed) = 0 =>
              FindBoardRaised /\ Logged("error", MsgNotFound) /\ ~Logged("error", MsgAmbiguous)
        /\ FindBoardReturned => TierUsed = {board}

\* one exact match among several substring matches, returned
C2_Witness ==
    /\ FindBoardReturned
    /\ Cardinality(ExactSet) = 1
    /\ Cardinality(SubstringSet) > 1
    /\ board \in ExactSet

\* ---- C3
Taxonomy == TrelloExportException \cup {"Unauthorized"}
SummaryErrors == {i \in 1..Len(log) : log[i] = Rec("error", MsgFailed)}

\* C3 (the claim as stated): every failure of the taxonomy, an Unauthorized of
\* any client call included, is caught in main: the run is in Failed, one
\* summary error is logged, nothing leaves main.
C3_TaxonomyFailureIsCaught ==
    exc \in Taxonomy => (pc = "failed" /\ Cardinality(SummaryErrors) = 1)

\* ---- C4
CardProduced == pc = "format"
ServiceComments == list_data.cards[ci + 1].comments

\* C4 (the claim as stated): a produced card's comments are the empty string
\* exactly when comment export was not requested.
C4_EmptyIffNotRequested ==
    CardProduced => (card_data.comments = "" <=> ~options.comments)

\* C4 (amended): a produced card's comments are the empty string exactly when
\* comment export was not requested or the service returned no comment for
\* the card.
C4_EmptyIffNotRequestedOrNone ==
    CardProduced =>
        (card_data.comments = "" <=> (~options.comments \/ Len(ServiceComments) = 0))

\* comments requested, a card without comments: the empty string
C4_Witness ==
    /\ CardProduced
    /\ options.comments
    /\ Len(ServiceComments) = 0
    /\ card_data.comments = ""

\* ---- C5
FindListsReturned == pc = "lists_resolved"
RequestedNames == split(options.lists.value, ",")
EveryRequestedFound ==
    \A k \in 1..Len(RequestedNames) :
        \E i \in 1..Len(remote_lists) : remote_lists[i].name = RequestedNames[k]

\* C5 (the claim as stated): with a non-empty filter matching some list,
\* find_lists warns when fewer lists were found than names requested, and
\* does not warn when every requested name is on the board.
C5_WarnsOnlyOnPartialMatch ==
    (FindListsReturned /\ Truthy(options.lists)) =>
        /\ Len(lists) < Len(RequestedNames) => Warned
        /\ EveryRequestedFound => ~Warned

\* ---- C6
FindListsActed == pc \in {"lists_resolved", "failed", "uncaught"}
AllLists == [i \in 1..Len(remote_lists) |-> i]

\* C6 (the claim as stated): without a filter find_lists returns every list
\* of the board in the board's order, whatever the number of lists.
C6_NoFilterReturnsAll ==
    (FindListsActed /\ exc # "Unauthorized" /\ ~Truthy(options.lists)) =>
        (FindListsReturned /\ lists = AllLists)

\* C6 (amended): without a filter find_lists returns every list of the board
\* in the board's order when the board has at least one list, and raises
\* NoListsException when the board has none.
C6_NoFilterReturnsAllOrRaises ==
    (FindListsActed /\ exc # "Unauthorized" /\ ~Truthy(options.lists)) =>
        IF Len(remote_lists) > 0
        THEN FindListsReturned /\ lists = AllLists
        ELSE pc = "failed" /\ exc = "NoListsException"

\* no filter, several lists, all returned in order
C6_Witness ==
    /\ FindListsReturned
    /\ ~Truthy(options.lists)
    /\ Len(remote_lists) >= 2
    /\ lists = AllLists

\* ---- C7
\* C7 (the claim as stated): after a save without merge every exported list
\* has the file "<name>.txt" holding exactly its formatted cards in order.
C7_EachListHasItsFile ==
    (pc = "done" /\ ~options.merge) =>
        \A k \in 1..Len(lists) :
            LET l == remote_lists[lists[k]]
            IN  /\ (l.name \o ".txt") \in DOMAIN fs
                /\ fs[l.name \o ".txt"] = DocList(l)

\* ---- C8
ContentBefore(f) == IF rerun /\ f \in DOMAIN prev_fs THEN prev_fs[f] ELSE ""

\* C8: a save with merge leaves one file "<board name>.txt"; after what the
\* file held before the run it holds one block per exported card, list after
\* list in board order, the ordinal starting at 1 in every list.
C8_MergedFileHoldsAllBlocks ==
    (pc = "done" /\ options.merge) =>
        /\ files = {MergedFile}
        /\ DOMAIN fs = {MergedFile}
        /\ fs[MergedFile] = ContentBefore(MergedFile) \o DocListsFrom(1)

\* two lists of 2 and 1 cards: three blocks numbered 1, 2 and 1
C8_Witness ==
    /\ pc = "done"
    /\ options.merge
    /\ ~rerun
    /\ ~options.comments
    /\ ~options.no_numbering
    /\ Len(lists) = 2
    /\ Len(remote_lists[lists[1]].cards) = 2
    /\ Len(remote_lists[lists[2]].cards) = 1
    /\ fs[MergedFile] = "Card 1. N11\nD1\nCard 2. N12\nD2\nCard 1. N21\nD1\n"

\* ---- C9
\* C9 (the claim as stated): every remote read is over before the first file
\* is opened: no remote call follows an open.
C9_NoRemoteCallAfterOpen ==
    \A i \in 1..Len(events) : \A j \in 1..Len(events) :
        (i < j /\ events[i] = "open") => events[j] \notin RemoteCalls

\* C9 (amended): the reads are lazy. The cards of a list are fetched right
\* before that list's file is opened, with no file open; a card's comments
\* are fetched with the list's file open, right before the card's block is
\* written when comments are requested and never otherwise.
C9_ReadsInterleaveWithWrites ==
    \A i \in 1..Len(events) :
        /\ events[i] = "open" => (i > 1 /\ events[i - 1] = "list_cards")
        /\ events[i] = "list_cards" => (i > 1 /\ events[i - 1] \in {"list_lists", "close"})
        /\ events[i] = "get_comments" =>
              (options.comments /\ i > 1 /\ events[i - 1] \in {"open", "write"})
        /\ (events[i] = "write" /\ options.comments) =>
              (i > 1 /\ events[i - 1] = "get_comments")

\* a second list is fetched after the first list's file was written, and
\* comments were fetched while a file was open
C9_Witness ==
    /\ pc = "done"
    /\ \E i \in 1..Len(events) : \E j \in 1..Len(events) :
          i < j /\ events[i] = "write" /\ events[j] = "list_cards"
    /\ \E i \in 2..Len(events) :
          events[i] = "get_comments" /\ events[i - 1] = "open"

\* ---- C10
SecondMergeDone == rerun /\ pc = "done" /\ options.merge

\* C10 (the claim as stated): a second save with merge leaves the merged
\* file as the first left it.
C10_MergeRerunIdempotent ==
    SecondMergeDone => fs[MergedFile] = prev_fs[MergedFile]

\* C10 (amended): a second save with merge appends every block once more:
\* the merged file holds the content the first run left followed by the same
\* blocks again, twice the first run's content when the first run created
\* the file.
C10_MergeRerunAppendsAgain ==
    SecondMergeDone => fs[MergedFile] = prev_fs[MergedFile] \o prev_fs[MergedFile]

\* a second merged run over a file the first run left non-empty
C10_Witness ==
    /\ SecondMergeDone
    /\ prev_fs[MergedFile] # ""
    /\ Len(fs[MergedFile]) = 2 * Len(prev_fs[MergedFile])
====
